---------------------------- MODULE Spec2Model ----------------------------
(***************************************************************************)
(* Model of src/index.js: the POST /api/salary handler (validation,       *)
(* credential check, the two-phase model cascade, result shaping, error   *)
(* mapping) and the parseAIResponse normalizer.                            *)
(*                                                                         *)
(* Text.  A JavaScript string is a sequence of one-character strings, so   *)
(* that trim(), the fence regular expressions, JSON.parse and includes()   *)
(* are computed character by character.  A string literal of the source    *)
(* that the program only sends (a response body) is written as a sequence  *)
(* of one chunk.  "NBSP" stands for U+00A0, a character that trim() and \s *)
(* treat as white space and JSON.parse does not; "BQ" stands for the       *)
(* backquote U+0060, which a TLA+ string cannot hold.                      *)
(*                                                                         *)
(* Values.  A JavaScript value is a record tagged by t (its typeof, with   *)
(* null and arrays told apart); an object is the sequence of its           *)
(* <<key, value>> properties in insertion order.                           *)
(***************************************************************************)
EXTENDS Integers, Sequences, FiniteSets, TLC

(***************************************************************************)
(* JavaScript values                                                       *)
(***************************************************************************)
Undefined == [t |-> "undefined"]
JNull == [t |-> "null"]
JBool(b) == [t |-> "boolean", b |-> b]
JNum(n) == [t |-> "number", n |-> n]
JStr(s) == [t |-> "string", s |-> s]
JArr(elems) == [t |-> "array", a |-> elems]
JObj(props) == [t |-> "object", o |-> props]

\* ToBoolean: what !x and x || y test.
Truthy(v) ==
    CASE v.t = "undefined" -> FALSE
      [] v.t = "null" -> FALSE
      [] v.t = "boolean" -> v.b
      [] v.t = "number" -> v.n # 0
      [] v.t = "string" -> v.s # <<>>
      [] OTHER -> TRUE

\* x || y
OrElse(x, y) == IF Truthy(x) THEN x ELSE y

\* obj.key: the own property of a parsed object; undefined on any other
\* value that is not null or undefined (none of the keys read by the handler
\* exists on Number, Boolean, String or Array prototypes).
Get(v, key) ==
    IF v.t = "object" /\ \E i \in 1..Len(v.o) : v.o[i][1] = key
    THEN v.o[CHOOSE i \in 1..Len(v.o) : v.o[i][1] = key][2]
    ELSE Undefined

(***************************************************************************)
(* Characters and trimming                                                 *)
(***************************************************************************)
\* White space of the JSON grammar.
JSONWhite == {" ", "\n", "\t"}
\* White space of String.prototype.trim and of \s.
JSWhite == JSONWhite \cup {"NBSP"}
Digits == {"0", "1", "2", "3", "4", "5", "6", "7", "8", "9"}
DigitVal(c) ==
    CASE c = "0" -> 0 [] c = "1" -> 1 [] c = "2" -> 2 [] c = "3" -> 3
      [] c = "4" -> 4 [] c = "5" -> 5 [] c = "6" -> 6 [] c = "7" -> 7
      [] c = "8" -> 8 [] c = "9" -> 9

Min(S) == CHOOSE x \in S : \A y \in S : x <= y
Max(S) == CHOOSE x \in S : \A y \in S : x >= y
At(s, i) == IF i \in 1..Len(s) THEN s[i] ELSE "EOF"

\* First index >= i whose character is outside W (Len(s)+1 if none).
SkipOver(s, i, W) == Min({j \in i..(Len(s) + 1) : At(s, j) \notin W})
\* Last index <= i whose character is outside W (0 if none).
SkipBack(s, i, W) == Max({j \in 0..i : j = 0 \/ s[j] \notin W})

\* String.prototype.trim
Trim(s) == SubSeq(s, SkipOver(s, 1, JSWhite), SkipBack(s, Len(s), JSWhite))

\* Case folding of the /i flag, for the letters the patterns name.
Lower(c) ==
    CASE c = "J" -> "j" [] c = "S" -> "s" [] c = "O" -> "o" [] c = "N" -> "n"
      [] OTHER -> c

StartsWith(s, p) == Len(s) >= Len(p) /\ SubSeq(s, 1, Len(p)) = p
EndsWith(s, p) == Len(s) >= Len(p) /\ SubSeq(s, Len(s) - Len(p) + 1, Len(s)) = p
Fence == <<"BQ", "BQ", "BQ">>

\* Line 35: the leading fence with its json tag (case-insensitive) and the
\* white space after it.
StripJsonFence(s) ==
    IF StartsWith(s, Fence) /\ Len(s) >= 7
       /\ [i \in 1..4 |-> Lower(s[i + 3])] = <<"j", "s", "o", "n">>
    THEN SubSeq(s, SkipOver(s, 8, JSWhite), Len(s))
    ELSE s

\* Line 36 left out: only a fence with the json tag is taken off.
StripOpenFenceTagOnly(s) == s

\* Line 36: a leading fence and the white space after it.
StripOpenFence(s) ==
    IF StartsWith(s, Fence)
    THEN SubSeq(s, SkipOver(s, 4, JSWhite), Len(s))
    ELSE s

\* Line 37: a fence at the very end; the leftmost match is the white-space
\* run that precedes that fence, together with the fence.
StripCloseFence(s) ==
    IF EndsWith(s, Fence)
    THEN SubSeq(s, 1, SkipBack(s, Len(s) - 3, JSWhite))
    ELSE s

(***************************************************************************)
(* JSON.parse, for the grammar without escapes, signs, fractions and       *)
(* exponents: null, true, false, unsigned integers, strings, arrays and    *)
(* objects.  A parse step yields [ok, val, pos]: pos is the index after    *)
(* what was parsed.                                                        *)
(***************************************************************************)
NoParse == [ok |-> FALSE, val |-> Undefined, pos |-> 0]
Parsed(v, p) == [ok |-> TRUE, val |-> v, pos |-> p]

ParseLiteral(s, i, word, v) ==
    IF i + Len(word) - 1 <= Len(s) /\ SubSeq(s, i, i + Len(word) - 1) = word
    THEN Parsed(v, i + Len(word))
    ELSE NoParse

\* A string: the characters up to the next quote, none of them a control
\* character.
ParseString(s, i) ==
    LET close == {j \in (i + 1)..Len(s) : s[j] = "\""}
    IN  IF At(s, i) # "\"" \/ close = {}
        THEN NoParse
        ELSE LET j == Min(close)
                 body == SubSeq(s, i + 1, j - 1)
             IN  IF \E k \in 1..Len(body) : body[k] \in {"\n", "\t"}
                 THEN NoParse
                 ELSE Parsed(JStr(body), j + 1)

RECURSIVE DigitsValue(_)
DigitsValue(ds) ==
    IF ds = <<>> THEN 0
    ELSE 10 * DigitsValue(SubSeq(ds, 1, Len(ds) - 1)) + DigitVal(ds[Len(ds)])

\* A number: "0", or a run of digits that does not start with "0".
ParseNumber(s, i) ==
    IF At(s, i) = "0"
    THEN Parsed(JNum(0), i + 1)
    ELSE LET j == SkipOver(s, i, Digits)
         IN  Parsed(JNum(DigitsValue(SubSeq(s, i, j - 1))), j)

\* The properties of an object from its members in source order, as
\* JSON.parse builds them: a repeated key keeps its first place and takes
\* its last value.
Properties(members) ==
    LET firsts == SelectSeq([i \in 1..Len(members) |-> i],
                            LAMBDA i : \A j \in 1..(i - 1) :
                                          members[j][1] # members[i][1])
        last(key) == Max({j \in 1..Len(members) : members[j][1] = key})
    IN  [m \in 1..Len(firsts) |->
            <<members[firsts[m]][1], members[last(members[firsts[m]][1])][2]>>]

\* JSON.parse(s): one value, white space around it, nothing else.  The
\* result is [ok, val]; ok = FALSE stands for the SyntaxError it throws.
\* P["value", i] is the value that starts at index i, P["members", i] the
\* members of an object from index i up to its closing brace (a key is
\* expected at i), P["elements", i] the elements of an array from index i up
\* to its closing bracket (a value is expected at i).
JSONParse(s) ==
    LET P[kind \in {"value", "members", "elements"}, i \in 0..(Len(s) + 1)] ==
          LET c == At(s, i)
              n == SkipOver(s, i + 1, JSONWhite)
          IN  CASE kind = "value" ->
                     CASE c = "{" ->
                            IF At(s, n) = "}" THEN Parsed(JObj(<<>>), n + 1)
                            ELSE LET m == P["members", n]
                                 IN  IF m.ok
                                     THEN Parsed(JObj(Properties(m.val)), m.pos)
                                     ELSE NoParse
                       [] c = "[" ->
                            IF At(s, n) = "]" THEN Parsed(JArr(<<>>), n + 1)
                            ELSE LET m == P["elements", n]
                                 IN  IF m.ok THEN Parsed(JArr(m.val), m.pos)
                                     ELSE NoParse
                       [] c = "\"" -> ParseString(s, i)
                       [] c \in Digits -> ParseNumber(s, i)
                       [] c = "t" ->
                            ParseLiteral(s, i, <<"t", "r", "u", "e">>, JBool(TRUE))
                       [] c = "f" ->
                            ParseLiteral(s, i, <<"f", "a", "l", "s", "e">>,
                                         JBool(FALSE))
                       [] c = "n" ->
                            ParseLiteral(s, i, <<"n", "u", "l", "l">>, JNull)
                       [] OTHER -> NoParse
                [] kind = "members" ->
                     LET k == ParseString(s, i)
                         colon == SkipOver(s, k.pos, JSONWhite)
                         v == P["value", SkipOver(s, colon + 1, JSONWhite)]
                         e == SkipOver(s, v.pos, JSONWhite)
                         rest == P["members", SkipOver(s, e + 1, JSONWhite)]
                     IN  IF ~k.ok \/ At(s, colon) # ":" THEN NoParse
                         ELSE IF ~v.ok THEN NoParse
                         ELSE IF At(s, e) = "}"
                              THEN Parsed(<<<<k.val.s, v.val>>>>, e + 1)
                         ELSE IF At(s, e) = "," /\ rest.ok
                              THEN Parsed(<<<<k.val.s, v.val>>>> \o rest.val,
                                          rest.pos)
                         ELSE NoParse
                [] kind = "elements" ->
                     LET v == P["value", i]
                         e == SkipOver(s, v.pos, JSONWhite)
                         rest == P["elements", SkipOver(s, e + 1, JSONWhite)]
                     IN  IF ~v.ok THEN NoParse
                         ELSE IF At(s, e) = "]"
                              THEN Parsed(<<v.val>>, e + 1)
                         ELSE IF At(s, e) = "," /\ rest.ok
                              THEN Parsed(<<v.val>> \o rest.val, rest.pos)
                         ELSE NoParse
        r == P["value", SkipOver(s, 1, JSONWhite)]
    IN  IF r.ok /\ SkipOver(s, r.pos, JSONWhite) = Len(s) + 1
        THEN [ok |-> TRUE, val |-> r.val]
        ELSE [ok |-> FALSE, val |-> Undefined]

(***************************************************************************)
(* parseAIResponse(text): [ok, val]; ok = FALSE stands for the thrown      *)
(* Error('Failed to parse AI response as JSON').                           *)
(***************************************************************************)
CleanResponse(text) ==
    Trim(StripCloseFence(StripOpenFence(StripJsonFence(Trim(text)))))

parseAIResponse(text) == JSONParse(CleanResponse(text))

(***************************************************************************)
(* Errors.  An Error object is [t |-> "error", message |-> text]; null is  *)
(* JNull.                                                                  *)
(***************************************************************************)
Err(msg) == [t |-> "error", message |-> msg]

\* Line 45: new Error('Failed to parse AI response as JSON')
ParseError ==
    Err(<<"F", "a", "i", "l", "e", "d", " ", "t", "o", " ", "p", "a", "r", "s",
          "e", " ", "A", "I", " ", "r", "e", "s", "p", "o", "n", "s", "e", " ",
          "a", "s", " ", "J", "S", "O", "N">>)

\* Line 224: new Error('All models failed. Please check your API key and
\* available models.')
GenericError ==
    Err(<<"A", "l", "l", " ", "m", "o", "d", "e", "l", "s", " ", "f", "a", "i",
          "l", "e", "d", ".", " ", "P", "l", "e", "a", "s", "e", " ", "c", "h",
          "e", "c", "k", " ", "y", "o", "u", "r", " ", "A", "P", "I", " ", "k",
          "e", "y", " ", "a", "n", "d", " ", "a", "v", "a", "i", "l", "a", "b",
          "l", "e", " ", "m", "o", "d", "e", "l", "s", ".">>)

\* String.prototype.includes
Includes(s, p) ==
    \E i \in 1..(Len(s) - Len(p) + 1) : SubSeq(s, i, i + Len(p) - 1) = p

(***************************************************************************)
(* Responses: [code, body].  res.json answers 200 unless res.status set    *)
(* another code.                                                           *)
(***************************************************************************)
ErrorReply(code, text) == [code |-> code, body |-> [error |-> text]]

\* The check without f.trim() === '': white space counts as content.
FieldMissingUntrimmed(v) == ~Truthy(v) \/ v.t # "string"

\* Lines 55, 61, 67, 73: !f || typeof f !== 'string' || f.trim() === ''
FieldMissing(v) == ~Truthy(v) \/ v.t # "string" \/ Trim(v.s) = <<>>

\* The checks with position ahead of company.
ValidatePositionFirst(b) ==
    IF FieldMissing(b.position) THEN <<"Job role/position is required">>
    ELSE IF FieldMissing(b.company) THEN <<"Company name is required">>
    ELSE IF FieldMissing(b.ctc) THEN <<"Annual CTC is required">>
    ELSE IF FieldMissing(b.location) THEN <<"Work location is required">>
    ELSE <<>>

\* Lines 55-77: the message of the first check that fails, <<>> if none does.
Validate(b) ==
    IF FieldMissing(b.company) THEN <<"Company name is required">>
    ELSE IF FieldMissing(b.position) THEN <<"Job role/position is required">>
    ELSE IF FieldMissing(b.ctc) THEN <<"Annual CTC is required">>
    ELSE IF FieldMissing(b.location) THEN <<"Work location is required">>
    ELSE <<>>

\* The credential looked for before the body is validated.
PreflightKeyFirst(b, key) ==
    IF ~key
    THEN <<ErrorReply(500,
             <<"Server configuration error: API key not found">>)>>
    ELSE IF Validate(b) # <<>> THEN <<ErrorReply(400, Validate(b))>>
    ELSE <<>>

\* Lines 52-85: the responses sent before the cascade; <<>> when the handler
\* goes on to the cascade.
Preflight(b, key) ==
    IF Validate(b) # <<>> THEN <<ErrorReply(400, Validate(b))>>
    ELSE IF ~key
         THEN <<ErrorReply(500,
                  <<"Server configuration error: API key not found">>)>>
    ELSE <<>>

\* x.trim() of a validated field
Trimmed(v) == JStr(Trim(v.s))

Status == <<"s", "t", "a", "t", "u", "s">>
Success == <<"s", "u", "c", "c", "e", "s", "s">>
Mismatch == <<"m", "i", "s", "m", "a", "t", "c", "h">>
Analysis == <<"a", "n", "a", "l", "y", "s", "i", "s">>
Notes == <<"n", "o", "t", "e", "s">>
ResearchFindings ==
    <<"r", "e", "s", "e", "a", "r", "c", "h", "_", "f", "i", "n", "d", "i",
      "n", "g", "s">>
MonthlyBreakdown ==
    <<"m", "o", "n", "t", "h", "l", "y", "_", "b", "r", "e", "a", "k", "d",
      "o", "w", "n">>

\* The mismatch response with the service's research_findings let through.
MismatchResponseLeaky(b, data) ==
    [code |-> 200,
     body |-> [success |-> FALSE,
               status |-> JStr(Mismatch),
               company |-> Trimmed(b.company),
               position |-> Trimmed(b.position),
               ctc |-> Trimmed(b.ctc),
               location |-> Trimmed(b.location),
               analysis |-> OrElse(Get(data, Analysis), Get(data, Notes)),
               research_findings |-> OrElse(Get(data, ResearchFindings), JNull),
               monthly_breakdown |-> JNull,
               notes |-> JNull]]

\* Lines 230-241
MismatchResponse(b, data) ==
    [code |-> 200,
     body |-> [success |-> FALSE,
               status |-> JStr(Mismatch),
               company |-> Trimmed(b.company),
               position |-> Trimmed(b.position),
               ctc |-> Trimmed(b.ctc),
               location |-> Trimmed(b.location),
               analysis |-> OrElse(Get(data, Analysis), Get(data, Notes)),
               research_findings |-> JNull,
               monthly_breakdown |-> JNull,
               notes |-> JNull]]

\* Lines 251-261
SuccessResponse(b, data) ==
    [code |-> 200,
     body |-> [success |-> (Get(data, Status) = JStr(Success)),
               company |-> Trimmed(b.company),
               position |-> Trimmed(b.position),
               ctc |-> Trimmed(b.ctc),
               location |-> Trimmed(b.location),
               status |-> Get(data, Status),
               research_findings |-> OrElse(Get(data, ResearchFindings), JNull),
               monthly_breakdown |-> OrElse(Get(data, MonthlyBreakdown), JNull),
               notes |-> OrElse(Get(data, Notes), JNull)]]

\* The mismatch branch without its return: the handler falls through to
\* the res.json of line 251.
ResultResponsesFallThrough(b, data) ==
    IF Get(data, Status) = JStr(Mismatch)
    THEN <<MismatchResponse(b, data), SuccessResponse(b, data)>>
    ELSE <<SuccessResponse(b, data)>>

\* Lines 227-261: the responses sent for a truthy salaryData, in order.
ResultResponses(b, data) ==
    IF Get(data, Status) = JStr(Mismatch)
    THEN <<MismatchResponse(b, data)>>
    ELSE <<SuccessResponse(b, data)>>

\* The catch block with the test for 404 and 'not found' ahead of the test
\* for the API key.
ErrorResponseModelFirst(error) ==
    IF Includes(error.message, <<"4", "0", "4">>)
       \/ Includes(error.message,
                   <<"n", "o", "t", " ", "f", "o", "u", "n", "d">>)
    THEN ErrorReply(500,
           <<"Model not available. Please check your API key has access to Gemini models. Try using gemini-pro model.">>)
    ELSE IF Includes(error.message, <<"A", "P", "I", "_", "K", "E", "Y">>)
            \/ Includes(error.message, <<"A", "P", "I", " ", "k", "e", "y">>)
    THEN ErrorReply(500,
           <<"Invalid or missing Gemini API key. Please check your API key.">>)
    ELSE ErrorReply(500,
           <<"Failed to fetch salary estimate: ">>
             \o (IF error.message # <<>> THEN error.message
                 ELSE <<"Unknown error">>))

\* Lines 272-286: the response of the catch block for a caught Error.
ErrorResponse(error) ==
    IF Includes(error.message, <<"A", "P", "I", "_", "K", "E", "Y">>)
       \/ Includes(error.message, <<"A", "P", "I", " ", "k", "e", "y">>)
    THEN ErrorReply(500,
           <<"Invalid or missing Gemini API key. Please check your API key.">>)
    ELSE IF Includes(error.message, <<"4", "0", "4">>)
            \/ Includes(error.message,
                        <<"n", "o", "t", " ", "f", "o", "u", "n", "d">>)
    THEN ErrorReply(500,
           <<"Model not available. Please check your API key has access to Gemini models. Try using gemini-pro model.">>)
    ELSE ErrorReply(500,
           <<"Failed to fetch salary estimate: ">>
             \o (IF error.message # <<>> THEN error.message
                 ELSE <<"Unknown error">>))

\* Line 224 without lastError: the generic error whatever was recorded.
TerminalErrorGeneric(lastErr) == GenericError

\* Line 224: throw lastError || new Error('All models failed. ...')
TerminalError(lastErr) == OrElse(lastErr, GenericError)

\* Lines 159-163
modelsToTry == <<"gemini-2.5-flash", "gemini-2.0-flash-exp", "gemini-pro">>

\* The tag without the mark of the search-enabled phase.
ModelTagPlain(name, search) == JStr(<<name>>)

\* Lines 186 and 212: the tag of the attempt that parsed.
ModelTag(name, search) ==
    JStr(IF search THEN <<name, " (with Google Search)">> ELSE <<name>>)

(***************************************************************************)
(* Inputs: request bodies, the remote service's replies and errors.        *)
(***************************************************************************)
\* What a field of the body can be: absent, null, a number, an object, an
\* empty or white-space-only string, and strings with content.
FieldValues ==
    {Undefined, JNull, JNum(5), JObj(<<>>), JStr(<<>>), JStr(<<" ", "NBSP">>),
     JStr(<<"a">>), JStr(<<" ", "b", " ", "c", "\n">>)}

Bodies ==
    [company : FieldValues, position : FieldValues, ctc : FieldValues,
     location : FieldValues]

RECURSIVE NumberText(_)
NumberText(n) ==
    LET d == CHOOSE c \in Digits : DigitVal(c) = n % 10
    IN  IF n < 10 THEN <<d>> ELSE NumberText(n \div 10) \o <<d>>

\* The JSON text of a value: how the remote service writes the values it
\* replies with.
RECURSIVE JSONText(_)
RECURSIVE JoinTexts(_, _)
JoinTexts(texts, i) ==
    IF i > Len(texts) THEN <<>>
    ELSE (IF i > 1 THEN <<",">> ELSE <<>>) \o texts[i] \o JoinTexts(texts, i + 1)

JSONText(v) ==
    CASE v.t = "null" -> <<"n", "u", "l", "l">>
      [] v.t = "boolean" ->
           IF v.b THEN <<"t", "r", "u", "e">> ELSE <<"f", "a", "l", "s", "e">>
      [] v.t = "number" -> NumberText(v.n)
      [] v.t = "string" -> <<"\"">> \o v.s \o <<"\"">>
      [] v.t = "array" ->
           <<"[">> \o JoinTexts([i \in 1..Len(v.a) |-> JSONText(v.a[i])], 1)
                   \o <<"]">>
      [] v.t = "object" ->
           <<"{">> \o JoinTexts([i \in 1..Len(v.o) |->
                                   <<"\"">> \o v.o[i][1] \o <<"\"", ":">>
                                            \o JSONText(v.o[i][2])], 1)
                   \o <<"}">>

\* A text inside a code fence: white space, the fence and its tag, white
\* space, the text, white space, the closing fence, white space.
Fenced(core, tag, p1, p2, p3, p4) ==
    p1 \o Fence \o tag \o p2 \o core \o p3 \o Fence \o p4

AString == JStr(<<"x">>)
AnObject == JObj(<<<<<<"k">>, JNum(12)>>>>)

\* What the remote service supplies for research_findings,
\* monthly_breakdown and notes.
Supplied == {Undefined, JNull, JNum(0), JBool(FALSE), JStr(<<>>), AString, AnObject}

\* An object of the given properties, without those that are undefined.
ObjectOf(props) == JObj(SelectSeq(props, LAMBDA kv : kv[2] # Undefined))

\* The values the remote service replies with.
RemoteValues ==
    {JNull, JBool(FALSE), JNum(0), JStr(<<>>)}
    \cup {JNum(7), AString, JArr(<<JNum(1), JNull>>), JObj(<<>>)}
    \cup {ObjectOf(<<<<Status, st>>>>) : st \in {JStr(<<"o", "k">>), JNull}}
    \cup {ObjectOf(<<<<Status, JStr(Mismatch)>>, <<Analysis, an>>,
                     <<ResearchFindings, rf>>, <<MonthlyBreakdown, rf>>,
                     <<Notes, no>>>>) :
            an \in {Undefined, AString}, rf \in {Undefined, AnObject},
            no \in {Undefined, JStr(<<"n">>)}}
    \cup {ObjectOf(<<<<Status, JStr(Success)>>, <<ResearchFindings, rf>>,
                     <<MonthlyBreakdown, mb>>, <<Notes, JStr(<<"n">>)>>>>) :
            rf \in Supplied, mb \in {Undefined, AnObject}}

\* Replies that are not JSON, or not JSON once the fences are off.
BrokenTexts ==
    {<<>>, <<"S", "o", "r", "r", "y">>, <<"{", "\"", "a", "\"", ":", "}">>,
     <<"0", "5">>, Fence \o <<"j", "s", "o", "n">>,
     Fence \o <<"j", "s", "\n", "{", "}", "\n">> \o Fence,
     <<"NBSP", "{", "NBSP", "}">>}

\* The texts response.text() returns.
Texts ==
    {JSONText(v) : v \in RemoteValues}
    \cup {Fenced(JSONText(v), tag, <<>>, <<"\n">>, <<"\n">>, <<" ">>) :
            v \in {JNull, ObjectOf(<<<<Status, JStr(Success)>>>>)},
            tag \in {<<>>, <<"j", "s", "o", "n">>}}
    \cup {<<" ", "\n">> \o JSONText(JNum(0)) \o <<"NBSP">>,
          <<"{", " ", "\"", "s", "t", "a", "t", "u", "s", "\"", "\n", ":", " ",
            "\"", "m", "i", "s", "m", "a", "t", "c", "h", "\"", "\t", "}">>}
    \cup BrokenTexts

\* The errors a remote call fails with.
RemoteErrors ==
    {Err(<<"A", "P", "I", " ", "k", "e", "y", " ", "n", "o", "t", " ", "v", "a",
           "l", "i", "d">>),
     Err(<<"[", "4", "0", "4", "]", " ", "A", "P", "I", "_", "K", "E", "Y">>),
     Err(<<"m", "o", "d", "e", "l", " ", "n", "o", "t", " ", "f", "o", "u", "n",
           "d">>),
     Err(<<>>)}

\* The longest run of white space put around a fence.
MaxPad == 1
PadChars == {"\n", "NBSP"}
Pads == UNION {[1..n -> PadChars] : n \in 0..MaxPad}
FenceTags == {<<>>, <<"j", "s", "o", "n">>, <<"J", "S", "O", "N">>, <<"J", "s", "o", "n">>}

\* Texts handed to the normalizer with and without a fence: JSON texts (the
\* last of them a string that holds a fence), and texts that are not JSON.
ProbeCores ==
    {JSONText(v) : v \in {JNull, JNum(0), JStr(<<>>), JArr(<<JNum(1), JNull>>),
                          JStr(Fence),
                          ObjectOf(<<<<Status, JStr(Mismatch)>>,
                                     <<Analysis, AString>>>>)}}
    \cup {<<"{", "\n", "\"", "k", "\"", " ", ":", "\t", "1", "}">>,
          <<"j", "s", "o", "n", "{", "}">>, <<"S", "o", "r", "r", "y">>,
          <<"NBSP", "{", "}">>}

Probes ==
    {[core |-> core, fenced |-> Fenced(core, tag, p1, p2, p3, p4)] :
        core \in ProbeCores, tag \in FenceTags,
        p1 \in Pads, p2 \in Pads, p3 \in Pads, p4 \in Pads}

(***************************************************************************)
(* State.  One handler invocation per request; the handler runs without    *)
(* interruption from one await to the next (lines 180-181, 206-207).       *)
(***************************************************************************)
VARIABLES
    apiKey,          \* process.env.GEMINI_API_KEY is set (line 80)
    pc,              \* per request: "idle", "await" (a remote call is in flight), "done"
    body,            \* per request: req.body (line 52)
    cursor,          \* per request: the loop and the index in modelsToTry of the call in flight
    lastError,       \* per request: line 167
    salaryData,      \* per request: line 168
    successfulModel, \* per request: line 169
    caught,          \* per request: the error bound by catch (line 263), JNull if none
    responses,       \* per request: the responses sent, in order
    attempts,        \* per request: the remote calls issued, in order, each with its outcome
    lastFailed,      \* per request: the error of the most recent attempt that failed
    probe,           \* the text handed to the normalizer on its own
    probeOut         \* what the normalizer made of it: values returned, error thrown

vars ==
    <<apiKey, pc, body, cursor, lastError, salaryData, successfulModel, caught,
      responses, attempts, lastFailed, probe, probeOut>>

Requests == {"r1", "r2"}

NoBody == [company |-> Undefined, position |-> Undefined, ctc |-> Undefined,
           location |-> Undefined]
NoProbe == [core |-> <<>>, fenced |-> <<>>]
NoOut == [done |-> FALSE, core |-> [ok |-> FALSE, val |-> Undefined],
          fenced |-> [ok |-> FALSE, val |-> Undefined], error |-> JNull]

InitRequests ==
    /\ apiKey \in BOOLEAN
    /\ pc = [r \in Requests |-> "idle"]
    /\ body = [r \in Requests |-> NoBody]
    /\ cursor = [r \in Requests |-> [search |-> TRUE, i |-> 0]]
    /\ lastError = [r \in Requests |-> JNull]
    /\ salaryData = [r \in Requests |-> JNull]
    /\ successfulModel = [r \in Requests |-> JNull]
    /\ caught = [r \in Requests |-> JNull]
    /\ responses = [r \in Requests |-> <<>>]
    /\ attempts = [r \in Requests |-> <<>>]
    /\ lastFailed = [r \in Requests |-> JNull]

Init == InitRequests /\ probe = NoProbe /\ probeOut = NoOut

\* The calls for modelsToTry[i] and for the model after it go out together.
IssueSpeculative(att, search, i) ==
    [pc |-> "await",
     cursor |-> [search |-> search, i |-> i],
     attempts |->
        IF i < Len(modelsToTry)
        THEN att \o <<[model |-> modelsToTry[i], search |-> search,
                       result |-> "pending", value |-> Undefined],
                      [model |-> modelsToTry[i + 1], search |-> search,
                       result |-> "pending", value |-> Undefined]>>
        ELSE Append(att, [model |-> modelsToTry[i], search |-> search,
                          result |-> "pending", value |-> Undefined]),
     caught |-> JNull,
     responses |-> <<>>]

\* Lines 175-180 and 202-206: the call for modelsToTry[i] goes out.
Issue(att, search, i) ==
    [pc |-> "await",
     cursor |-> [search |-> search, i |-> i],
     attempts |-> Append(att, [model |-> modelsToTry[i], search |-> search,
                               result |-> "pending", value |-> Undefined]),
     caught |-> JNull,
     responses |-> <<>>]

\* Lines 223-287: after the loops, with salaryData = data and lastError = err.
Finish(b, cur, att, data, err) ==
    [pc |-> "done",
     cursor |-> cur,
     attempts |-> att,
     caught |-> IF Truthy(data) THEN JNull ELSE TerminalError(err),
     responses |-> IF Truthy(data) THEN ResultResponses(b, data)
                   ELSE <<ErrorResponse(TerminalError(err))>>]

\* The loop going from a failed first model straight to the last one.
ContinueSkipping(b, cur, att, data, err, broke) ==
    IF ~broke /\ cur.i < Len(modelsToTry)
    THEN Issue(att, cur.search, Len(modelsToTry))
    ELSE IF cur.search /\ ~Truthy(data)
    THEN Issue(att, FALSE, 1)
    ELSE Finish(b, cur, att, data, err)

\* Lines 172-225: the handler from the end of the attempt at cur until the
\* next call goes out or a response is sent.  broke: the attempt ended
\* in the break of line 188 or 214.
Continue(b, cur, att, data, err, broke) ==
    IF ~broke /\ cur.i < Len(modelsToTry)
    THEN Issue(att, cur.search, cur.i + 1)
    ELSE IF cur.search /\ ~Truthy(data)
    THEN Issue(att, FALSE, 1)
    ELSE Finish(b, cur, att, data, err)

\* The attempt in flight, closed with an outcome.
Close(att, result, value) ==
    [att EXCEPT ![Len(att)].result = result, ![Len(att)].value = value]

\* The handler's position after a step becomes the state of request r.
Install(r, next) ==
    \E n \in {next} :
        /\ pc' = [pc EXCEPT ![r] = n.pc]
        /\ cursor' = [cursor EXCEPT ![r] = n.cursor]
        /\ attempts' = [attempts EXCEPT ![r] = n.attempts]
        /\ caught' = [caught EXCEPT ![r] = n.caught]
        /\ responses' = [responses EXCEPT ![r] = n.responses]

\* Lines 50-180: a request arrives with a body of B; the handler runs up to
\* its first response or its first remote call.
Receive(r, B) ==
    /\ pc[r] = "idle"
    /\ \E b \in B :
         /\ body' = [body EXCEPT ![r] = b]
         /\ IF Preflight(b, apiKey) # <<>>
            THEN Install(r, [pc |-> "done", cursor |-> cursor[r],
                             attempts |-> attempts[r], caught |-> JNull,
                             responses |-> Preflight(b, apiKey)])
            ELSE Install(r, Issue(attempts[r], TRUE, 1))
    /\ UNCHANGED <<apiKey, lastError, salaryData, successfulModel, lastFailed,
                   probe, probeOut>>

\* Lines 180-194 and 206-219: the call in flight returns a text of T; p is
\* parseAIResponse(response.text().trim()).  If the text parses, salaryData
\* and successfulModel are set and the loop breaks; otherwise the catch
\* records the parse error and the loop goes on.
RemoteReturns(r, T) ==
    /\ pc[r] = "await"
    /\ \E text \in T : \E p \in {parseAIResponse(Trim(text))} :
         LET data == IF p.ok THEN p.val ELSE salaryData[r]
             err == IF p.ok THEN lastError[r] ELSE ParseError
             att == IF p.ok THEN Close(attempts[r], "parsed", p.val)
                    ELSE Close(attempts[r], "failed", Undefined)
         IN  /\ salaryData' = [salaryData EXCEPT ![r] = data]
             /\ lastError' = [lastError EXCEPT ![r] = err]
             /\ successfulModel' =
                   IF p.ok
                   THEN [successfulModel EXCEPT
                           ![r] = ModelTag(modelsToTry[cursor[r].i],
                                           cursor[r].search)]
                   ELSE successfulModel
             /\ lastFailed' = IF p.ok THEN lastFailed
                              ELSE [lastFailed EXCEPT ![r] = ParseError]
             /\ Install(r, Continue(body[r], cursor[r], att, data, err, p.ok))
    /\ UNCHANGED <<apiKey, body, probe, probeOut>>

\* lastError kept in one place for all requests: the catch of one request
\* records its error for every request.
RemoteFailsShared(r, E) ==
    /\ pc[r] = "await"
    /\ \E e \in E :
         /\ lastError' = [q \in Requests |-> e]
         /\ lastFailed' = [lastFailed EXCEPT ![r] = e]
         /\ Install(r, Continue(body[r], cursor[r],
                                Close(attempts[r], "failed", Undefined),
                                salaryData[r], e, FALSE))
    /\ UNCHANGED <<apiKey, body, salaryData, successfulModel, probe, probeOut>>

\* Lines 175-182 and 189-193, 202-208 and 215-219: the call in flight
\* fails with an error of E (getGenerativeModel, generateContent or text()
\* throws); the catch records it and the loop goes on.
RemoteFails(r, E) ==
    /\ pc[r] = "await"
    /\ \E e \in E :
         /\ lastError' = [lastError EXCEPT ![r] = e]
         /\ lastFailed' = [lastFailed EXCEPT ![r] = e]
         /\ Install(r, Continue(body[r], cursor[r],
                                Close(attempts[r], "failed", Undefined),
                                salaryData[r], e, FALSE))
    /\ UNCHANGED <<apiKey, body, salaryData, successfulModel, probe, probeOut>>

\* Lines 31-47: the normalizer is applied to a text and to the same text
\* inside a fence; error is what it throws for the text itself (line 45),
\* JNull if it returns.
Normalize ==
    /\ ~probeOut.done
    /\ probe # NoProbe
    /\ \E c \in {parseAIResponse(probe.core)} :
         probeOut' = [done |-> TRUE,
                      core |-> c,
                      fenced |-> parseAIResponse(probe.fenced),
                      error |-> IF c.ok THEN JNull ELSE ParseError]
    /\ UNCHANGED <<apiKey, pc, body, cursor, lastError, salaryData,
                   successfulModel, caught, responses, attempts, lastFailed,
                   probe>>

(***************************************************************************)
(* Specifications                                                          *)
(***************************************************************************)
\* One request, every input.
Next ==
    \/ Receive("r1", Bodies)
    \/ RemoteReturns("r1", Texts)
    \/ RemoteFails("r1", RemoteErrors)

Spec == Init /\ [][Next]_vars

\* One request on inputs that take every path of the handler, each remote
\* call returning or failing in the end.
FairBodies ==
    {b \in Bodies :
        /\ b.company \in {Undefined, JStr(<<"a">>)}
        /\ b.position = JStr(<<" ", "b", " ", "c", "\n">>)
        /\ b.ctc = JStr(<<"a">>)
        /\ b.location \in {JStr(<<" ", "NBSP">>), JStr(<<"a">>)}}
FairTexts ==
    {JSONText(v) : v \in {JNull, JNum(7), ObjectOf(<<<<Status, JNull>>>>),
                          ObjectOf(<<<<Status, JStr(Mismatch)>>,
                                     <<Analysis, AString>>>>),
                          ObjectOf(<<<<Status, JStr(Success)>>,
                                     <<ResearchFindings, AnObject>>>>)}}
    \cup {<<"S", "o", "r", "r", "y">>}
FairErrors == {Err(<<>>), GenericError}
FairNext ==
    \/ Receive("r1", FairBodies)
    \/ RemoteReturns("r1", FairTexts)
    \/ RemoteFails("r1", FairErrors)
FairSpec ==
    /\ Init
    /\ [][FairNext]_vars
    /\ WF_vars(RemoteFails("r1", FairErrors) \/ RemoteReturns("r1", FairTexts))

\* Two requests in flight together, their steps interleaved in any order.
ConcNext ==
    \/ Receive("r1", FairBodies)
    \/ Receive("r2", FairBodies)
    \/ RemoteFails("r1", FairErrors)
    \/ RemoteFails("r2", FairErrors)
    \/ RemoteReturns("r1", FairTexts)
    \/ RemoteReturns("r2", FairTexts)
ConcSpec == Init /\ [][ConcNext]_vars

\* The normalizer alone, on every probe.
NormInit == InitRequests /\ probe \in Probes /\ probeOut = NoOut
NormNext == Normalize
NormSpec == NormInit /\ [][NormNext]_vars

(***************************************************************************)
(* Claims                                                                  *)
(***************************************************************************)

R == "r1"
Done == pc[R] = "done"
FieldOrder == <<"company", "position", "ctc", "location">>

\* A field as the specification wants it: a string with content other than
\* white space.
HasContent(v) == v.t = "string" /\ \E i \in 1..Len(v.s) : v.s[i] \notin JSWhite
Blank(f) == ~HasContent(body[R][f])
SomeBlank == \E k \in 1..4 : Blank(FieldOrder[k])
FirstBlank == FieldOrder[Min({k \in 1..4 : Blank(FieldOrder[k])})]

RequiredMessage(f) ==
    CASE f = "company" -> <<"Company name is required">>
      [] f = "position" -> <<"Job role/position is required">>
      [] f = "ctc" -> <<"Annual CTC is required">>
      [] f = "location" -> <<"Work location is required">>

Rejects(f) == responses[R] = <<[code |-> 400, body |-> [error |-> RequiredMessage(f)]]>>
ConfigReply ==
    [code |-> 500,
     body |-> [error |-> <<"Server configuration error: API key not found">>]]

Log == attempts[R]
ParsedAt == {i \in 1..Len(Log) : Log[i].result = "parsed"}
FailedAt == {i \in 1..Len(Log) : Log[i].result = "failed"}
PlainAt == {i \in 1..Len(Log) : ~Log[i].search}

\* C1 (as claimed): the cascade stops at the first attempt whose text
\* parses, whatever the parsed value: no remote call is issued after it,
\* and the response is built from that value.
C1_StopsAtFirstParse ==
    \A i \in ParsedAt :
        /\ i = Len(Log)
        /\ Done
        /\ responses[R] = ResultResponses(body[R], Log[i].value)

\* C2 (as claimed): a plain attempt is issued only after a search-enabled
\* attempt was issued for each of the three models and each failed; and the
\* result returned from the plain phase is that of the first model, in list
\* order, whose plain attempt parses.
C2_PlainOnlyAfterSearchFailed ==
    /\ \A i \in PlainAt :
           /\ i > Len(modelsToTry)
           /\ \A j \in 1..Len(modelsToTry) :
                 /\ Log[j].search
                 /\ Log[j].model = modelsToTry[j]
                 /\ Log[j].result = "failed"
    /\ Done /\ PlainAt \cap ParsedAt # {} =>
           responses[R] =
              ResultResponses(body[R], Log[Min(PlainAt \cap ParsedAt)].value)

\* C3: when both phases end without a result the request fails with a 500,
\* and the error it surfaces is the error of the most recent failed attempt;
\* the generic error is surfaced only when no attempt failed.
C3_TerminalErrorIsLastError ==
    Done /\ Log # <<>> /\ ~Truthy(salaryData[R]) =>
        /\ Len(responses[R]) = 1
        /\ responses[R][1].code = 500
        /\ caught[R] = IF FailedAt # {} THEN lastFailed[R] ELSE GenericError
        /\ FailedAt # {} => lastError[R] = lastFailed[R]

C3_Witness ==
    /\ Done
    /\ Len(Log) = 2 * Len(modelsToTry)
    /\ FailedAt = 1..Len(Log)
    /\ lastFailed[R] \in RemoteErrors
    /\ caught[R] = lastFailed[R]
    /\ responses[R][1].code = 500

\* C4 (as claimed): a blank field gets a 400 that names that very field,
\* whatever the other three fields are.
C4_EveryBlankFieldNamed ==
    \A k \in 1..4 : Done /\ Blank(FieldOrder[k]) => Rejects(FieldOrder[k])

\* C4 (amended): a blank field gets a 400; the 400 names that very field
\* whenever every field before it in the order company, position, ctc,
\* location has content, whatever the fields after it are.
C4_BlankFieldNamedIfEarlierValid ==
    \A k \in 1..4 :
        Done /\ Blank(FieldOrder[k]) =>
            /\ Len(responses[R]) = 1
            /\ responses[R][1].code = 400
            /\ (\A j \in 1..(k - 1) : ~Blank(FieldOrder[j])) => Rejects(FieldOrder[k])

C4_Witness ==
    /\ Done
    /\ ~Blank("company")
    /\ body[R].position = JNum(5)
    /\ ~Blank("ctc")
    /\ body[R].location = JStr(<<" ", "NBSP">>)
    /\ Rejects("position")

\* C5: validation fails on the first blank field in the order company,
\* position, ctc, location: the single 400 carries that field's message and
\* no later field's.
C5_FirstBlankFieldReported == Done /\ SomeBlank => Rejects(FirstBlank)

C5_Witness ==
    /\ Done
    /\ Blank("company") /\ Blank("position") /\ Blank("location")
    /\ Rejects("company")

\* C6: a request answered with a 400 or with the configuration 500 issued no
\* remote call; validation is decided before the credential check, so a
\* blank field without a credential yields the 400.
C6_NoCallBeforeCascade ==
    Done =>
        /\ SomeBlank => Log = <<>> /\ responses[R][1].code = 400
        /\ ~SomeBlank /\ ~apiKey => Log = <<>> /\ responses[R] = <<ConfigReply>>
        /\ responses[R][1].code = 400 \/ responses[R] = <<ConfigReply>> => Log = <<>>

C6_Witness ==
    /\ Done
    /\ ~apiKey
    /\ SomeBlank
    /\ responses[R][1].code = 400
    /\ Log = <<>>

\* C7: every request gets exactly one response: never two, and, each remote
\* call returning or failing in the end, eventually one.
C7_ExactlyOneResponse ==
    /\ [](Len(responses[R]) <= 1)
    /\ (pc[R] # "idle") ~> (Len(responses[R]) = 1)

C7_Witness ==
    /\ Done
    /\ Get(salaryData[R], Status) = JStr(Mismatch)
    /\ Len(responses[R]) = 1

\* C8: a parsed result of status mismatch gets a 200 with success false,
\* status mismatch, and research_findings, monthly_breakdown and notes null,
\* whatever the service supplied for them.
C8_MismatchNulls ==
    Done /\ Get(salaryData[R], Status) = JStr(Mismatch) =>
        /\ Len(responses[R]) = 1
        /\ responses[R][1].code = 200
        /\ responses[R][1].body.success = FALSE
        /\ responses[R][1].body.status = JStr(Mismatch)
        /\ responses[R][1].body.research_findings = JNull
        /\ responses[R][1].body.monthly_breakdown = JNull
        /\ responses[R][1].body.notes = JNull

C8_Witness ==
    /\ Done
    /\ Get(salaryData[R], Status) = JStr(Mismatch)
    /\ Get(salaryData[R], ResearchFindings) = AnObject
    /\ Get(salaryData[R], MonthlyBreakdown) = AnObject
    /\ Get(salaryData[R], Notes) = JStr(<<"n">>)
    /\ responses[R][1].body.research_findings = JNull
    /\ responses[R][1].body.notes = JNull

\* What a field passed through unchanged is: the value supplied, null when
\* the field is absent.
PassedThrough(data, key) ==
    IF Get(data, key) = Undefined THEN JNull ELSE Get(data, key)

\* C9 (as claimed): a parsed result of status success gets a 200 with
\* success true whose research_findings and monthly_breakdown are the values
\* the service supplied, null only when the field is absent.
C9_SuccessPassesThrough ==
    Done /\ Get(salaryData[R], Status) = JStr(Success) =>
        /\ Len(responses[R]) = 1
        /\ responses[R][1].code = 200
        /\ responses[R][1].body.success = TRUE
        /\ responses[R][1].body.research_findings =
              PassedThrough(salaryData[R], ResearchFindings)
        /\ responses[R][1].body.monthly_breakdown =
              PassedThrough(salaryData[R], MonthlyBreakdown)

\* C10: a JSON text inside a code fence (with or without the json tag, with
\* white space around the fences) parses to the same value as the text
\* itself; and a text that holds no fence parses as JSON.parse parses it
\* once trimmed.
C10_FenceRoundTrip ==
    probeOut.done =>
        /\ JSONParse(probe.core).ok =>
              probeOut.core.ok /\ probeOut.fenced = probeOut.core
        /\ ~Includes(probe.core, Fence) =>
              probeOut.core = JSONParse(Trim(probe.core))

C10_Witness ==
    /\ probeOut.done
    /\ probe.core = JSONText(ObjectOf(<<<<Status, JStr(Mismatch)>>,
                                        <<Analysis, AString>>>>))
    /\ probe.fenced = Fenced(probe.core, <<"j", "s", "o", "n">>, <<>>,
                             <<"\n">>, <<"\n">>, <<>>)
    /\ probeOut.fenced.ok
    /\ Get(probeOut.fenced.val, Status) = JStr(Mismatch)

\* The indicators the catch block looks for in a message.
KeyIndicator(msg) ==
    \/ Includes(msg, <<"A", "P", "I", "_", "K", "E", "Y">>)
    \/ Includes(msg, <<"A", "P", "I", " ", "k", "e", "y">>)
ModelIndicator(msg) ==
    \/ Includes(msg, <<"4", "0", "4">>)
    \/ Includes(msg, <<"n", "o", "t", " ", "f", "o", "u", "n", "d">>)
KeyBody == <<"Invalid or missing Gemini API key. Please check your API key.">>
ModelBody ==
    <<"Model not available. Please check your API key has access to Gemini models. Try using gemini-pro model.">>
FetchBody(msg) == <<"Failed to fetch salary estimate: ">> \o msg
TerminalReply(text) == responses[R] = <<[code |-> 500, body |-> [error |-> text]]>>

\* C11 (as claimed): the 500 of a terminal error is chosen from its message
\* alone: the API key body if the message holds an API key indicator, else
\* the model body if it holds 404 or 'not found', else 'Failed to fetch
\* salary estimate: ' followed by the message as it is.
C11_BodyFromMessage ==
    Done /\ caught[R] # JNull =>
        LET msg == caught[R].message
        IN  IF KeyIndicator(msg) THEN TerminalReply(KeyBody)
            ELSE IF ModelIndicator(msg) THEN TerminalReply(ModelBody)
            ELSE TerminalReply(FetchBody(msg))

\* C11 (amended): as claimed, except that an empty message is answered as
\* 'Failed to fetch salary estimate: Unknown error'.
C11_BodyFromMessageOrUnknown ==
    Done /\ caught[R] # JNull =>
        LET msg == caught[R].message
        IN  IF KeyIndicator(msg) THEN TerminalReply(KeyBody)
            ELSE IF ModelIndicator(msg) THEN TerminalReply(ModelBody)
            ELSE IF msg # <<>> THEN TerminalReply(FetchBody(msg))
            ELSE TerminalReply(FetchBody(<<"Unknown error">>))

C11_Witness ==
    /\ Done
    /\ caught[R] # JNull
    /\ KeyIndicator(caught[R].message)
    /\ ModelIndicator(caught[R].message)
    /\ TerminalReply(KeyBody)

LastModel == modelsToTry[Len(modelsToTry)]
AllAttempts == 2 * Len(modelsToTry)

\* The attempt that follows attempt a in cascade order.
Following(a) ==
    IF a.model # LastModel
    THEN [model |-> modelsToTry[1 + CHOOSE k \in 1..Len(modelsToTry) :
                                       modelsToTry[k] = a.model],
          search |-> a.search]
    ELSE [model |-> modelsToTry[1], search |-> FALSE]

\* C12 (as claimed): an attempt that fails is recorded as lastError and,
\* unless it is the last plain attempt, is followed by the next attempt in
\* cascade order; the catch block is entered for the cascade only after all
\* six attempts were made.
C12_ErrorOnlyAfterAllAttempts ==
    /\ FailedAt # {} => lastError[R] = lastFailed[R]
    /\ \A i \in FailedAt :
          Log[i].search \/ Log[i].model # LastModel =>
              /\ Len(Log) > i
              /\ Log[i + 1].model = Following(Log[i]).model
              /\ Log[i + 1].search = Following(Log[i]).search
    /\ Done /\ caught[R] # JNull => Len(Log) = AllAttempts

InFlight == {i \in 1..Len(Log) : Log[i].result = "pending"}

\* C13: within one request at most one remote call is in flight, it is the
\* latest one issued, and the handler waits for it: every attempt before
\* the latest has returned or failed.
C13_OneCallInFlight ==
    /\ Cardinality(InFlight) <= 1
    /\ \A i \in InFlight : i = Len(Log)
    /\ pc[R] = "await" <=> InFlight # {}

C13_Witness ==
    /\ Len(Log) = 3
    /\ Log[1].result = "failed"
    /\ Log[2].result = "failed"
    /\ InFlight = {3}

\* What a request holds: the handler's locals and what it has sent.
StateOf(r) ==
    <<pc[r], body[r], cursor[r], lastError[r], salaryData[r],
      successfulModel[r], caught[r], responses[r], attempts[r], lastFailed[r]>>

\* The responses of request r had it run alone on its own body and on the
\* outcomes of its own attempts: the 400 or the configuration 500; else
\* the result of its first attempt that parsed to a truthy value; else the
\* 500 of its own latest failure.
AloneResponses(r) ==
    LET log == attempts[r]
        results == {i \in 1..Len(log) :
                      log[i].result = "parsed" /\ Truthy(log[i].value)}
        failed == {i \in 1..Len(log) : log[i].result = "failed"}
    IN  IF Preflight(body[r], apiKey) # <<>> THEN Preflight(body[r], apiKey)
        ELSE IF results # {}
        THEN ResultResponses(body[r], log[Min(results)].value)
        ELSE <<ErrorResponse(IF failed # {} THEN lastFailed[r]
                             ELSE GenericError)>>

\* C14: two requests do not interfere.  A step of one request leaves all
\* that the other holds as it was; the error a request has recorded is that
\* of its own latest failure; and the response to each request is the one
\* it gets alone on its own body and its own attempts' outcomes.
C14_RequestsIndependent ==
    /\ [][\A r \in Requests :
             StateOf(r)' # StateOf(r) =>
                 \A q \in Requests \ {r} : StateOf(q)' = StateOf(q)]_vars
    /\ [](\A r \in Requests :
             /\ pc[r] = "done" => responses[r] = AloneResponses(r)
             /\ lastError[r] = lastFailed[r])

C14_Witness ==
    /\ pc["r1"] = "done"
    /\ Len(attempts["r1"]) = AllAttempts
    /\ caught["r1"] = Err(<<>>)
    /\ responses["r1"] = <<ErrorResponse(Err(<<>>))>>
    /\ pc["r2"] = "await"
    /\ Len(attempts["r2"]) = 4
    /\ lastError["r2"] = GenericError

SearchAt == {i \in 1..Len(Log) : Log[i].search}

\* C15: the attempts of a request are at most six, no (model, search mode)
\* pair is attempted twice, every search-enabled attempt comes before every
\* plain one, and each phase takes the models in list order from the first,
\* skipping none.
C15_AttemptsBoundedOrdered ==
    /\ Len(Log) <= AllAttempts
    /\ \A i, j \in 1..Len(Log) :
          i # j => Log[i].model # Log[j].model \/ Log[i].search # Log[j].search
    /\ \A i \in SearchAt : \A j \in PlainAt : i < j
    /\ \A i \in SearchAt : Log[i].model = modelsToTry[i]
    /\ \A j \in PlainAt : Log[j].model = modelsToTry[j - Cardinality(SearchAt)]

C15_Witness ==
    /\ Done
    /\ Len(Log) = AllAttempts
    /\ FailedAt = 1..(AllAttempts - 1)
    /\ Log[AllAttempts].result = "parsed"
    /\ Log[AllAttempts].model = LastModel
    /\ responses[R][1].code = 200

KnownStatus == {JStr(Success), JStr(Mismatch)}

\* C16 (as claimed): an attempt that parses to a result whose status is
\* neither success nor mismatch, a result without a status field included,
\* ends the request: no further attempt is issued, and the response is a
\* 200 with success false and the parsed status passed through.
C16_UnknownStatusAnswered ==
    \A i \in ParsedAt :
        Get(Log[i].value, Status) \notin KnownStatus =>
            /\ i = Len(Log)
            /\ Done
            /\ Len(responses[R]) = 1
            /\ responses[R][1].code = 200
            /\ responses[R][1].body.success = FALSE
            /\ responses[R][1].body.status = Get(Log[i].value, Status)

\* C17 (as claimed): the error the normalizer raises for a text that does
\* not parse carries that text.
C17_ParseErrorCarriesText ==
    probeOut.done /\ ~probeOut.core.ok =>
        /\ probeOut.error # JNull
        /\ Includes(probeOut.error.message, probe.core)

\* The tag that identifies attempt a: its model, marked when a was
\* search-enabled.
TagOf(a) ==
    [t |-> "string",
     s |-> IF a.search THEN <<a.model, " (with Google Search)">>
           ELSE <<a.model>>]

\* C18: the recorded tag is that of an attempt that was issued and parsed,
\* the latest such; when the request ends with a result, the result is the
\* value of that very attempt.
C18_TagNamesProducingAttempt ==
    /\ successfulModel[R] # JNull <=> ParsedAt # {}
    /\ ParsedAt # {} => successfulModel[R] = TagOf(Log[Max(ParsedAt)])
    /\ Done /\ Log # <<>> /\ caught[R] = JNull =>
          /\ Max(ParsedAt) = Len(Log)
          /\ responses[R] = ResultResponses(body[R], Log[Len(Log)].value)
          /\ successfulModel[R] = TagOf(Log[Len(Log)])

C18_Witness ==
    /\ Done
    /\ Len(Log) = 5
    /\ FailedAt = 1..4
    /\ ParsedAt = {5}
    /\ Get(Log[5].value, Status) = JStr(Success)
    /\ responses[R][1].code = 200
    /\ successfulModel[R] = JStr(<<"gemini-2.0-flash-exp">>)

=============================================================================
